---- MODULE Spec2Model ----
(***************************************************************************)
(* service/explorer/file.go of Cloudreve: the upload handlers Create and   *)
(* PutContent around the hook pipeline of filesystem.Upload, the           *)
(* session-token downloads Download and DownloadArchived around the        *)
(* process-wide cache, the anonymous Download and PreviewContent.  Each    *)
(* inbound request is one process; its steps interleave with the steps of  *)
(* the other requests.                                                     *)
(***************************************************************************)
EXTENDS Integers, Sequences, FiniteSets, TLC

\* ------------------------------------------------------------------ bounds
\* The number of requests handled in all.
MaxReq == 2

\* The requests in flight at a time: a slot takes the next request when the
\* one it handled is over.
Reqs == {1, 2}
\* 42 and 43 are soft-linked (one physical object), 44 owns its object,
\* 45 is a path that holds no file yet.
FileIDs == {42, 43, 44, 45}
Keys == 1..(2 + MaxReq)
\* The Content-Length of an upload; the stored files have size 2.
UploadSizes == {1}
SessionIDs == {"a", "b"}
Prefixes == {"download_", "archive_"}

Stages == {"BeforeUpload", "AfterUpload", "AfterUploadCanceled", "AfterValidateFailed"}

VARIABLES files, store, used, nextKey, cache, dead, rq, started

vars == <<files, store, used, nextKey, cache, dead, rq, started>>

\* ------------------------------------------------------------------ state
NoContent == <<"none", 0>>
OrigContent == <<"orig", 0>>

NoHooks == [s \in Stages |-> <<>>]

\* A preview response before fs.Preview has answered.
NoResponse == [Redirect |-> FALSE, MaxAge |-> 0, URL |-> FALSE, Content |-> FALSE]

IdleReq ==
  [pc |-> "idle", kind |-> "none", fileID |-> 0, sid |-> "", size |-> 0,
   oneTime |-> FALSE, origin |-> [SourceName |-> 0, Size |-> 0], oldKey |-> 0,
   cow |-> FALSE, sharedAtCheck |-> FALSE, hooks |-> NoHooks, stage |-> "",
   idx |-> 0, ran |-> <<>>, stages |-> <<>>, errs |-> <<>>, savePath |-> 0,
   xfer |-> "none", wrote |-> {}, deducted |-> 0, code |-> "none",
   served |-> FALSE, deadAtStart |-> FALSE, deleted |-> FALSE,
   streamOK |-> FALSE, panicked |-> FALSE,
   cause |-> <<>>, cancel |-> "none", ctxDone |-> FALSE,
   fs |-> FALSE, recycled |-> 0, opened |-> 0, closed |-> 0, nilClose |-> FALSE,
   isText |-> FALSE, resp |-> NoResponse, header |-> <<>>, url |-> FALSE]

Init ==
  /\ files = [f \in FileIDs |->
                IF f \in {42, 43} THEN [exists |-> TRUE, SourceName |-> 1, Size |-> 2]
                ELSE IF f = 44 THEN [exists |-> TRUE, SourceName |-> 2, Size |-> 2]
                ELSE [exists |-> FALSE, SourceName |-> 0, Size |-> 0]]
  /\ store = [k \in Keys |-> IF k \in {1, 2} THEN OrigContent ELSE NoContent]
  /\ used = 6
  /\ nextKey = 3
  /\ cache = {<<"download_", "a">>, <<"archive_", "a">>}
  /\ dead = {}
  /\ rq = [r \in Reqs |-> IdleReq]
  /\ started = 0

\* The next request is taken by the first free slot (the slots are
\* interchangeable; this only fixes their numbering).
Free(r) == rq[r].pc \in {"idle", "done"}

CanStart(r) ==
  /\ started < MaxReq
  /\ Free(r)
  /\ \A s \in Reqs : s < r => ~Free(s)

Finish(q, code) == [q EXCEPT !.pc = "done", !.code = code]

\* defer fs.Recycle(): Create, DownloadArchived, both Download handlers and
\* PreviewContent register it once the filesystem is created; PutContent
\* has no such statement.
DefersRecycle(kind) == kind # "PutContent"

\* defer rs.Close() / defer resp.Content.Close(): each of the four handlers
\* that obtain a content stream registers the close of it.
DefersClose_ArchiveOnly(kind) == kind = "DownloadArchived"

DefersClose(kind) ==
  kind \in {"DownloadArchived", "AnonymousDownload", "Download", "PreviewContent"}

\* The handler returns (or unwinds): its deferred calls run.
Exit(q, code) ==
  [Finish(q, code) EXCEPT
     !.closed = IF q.opened > 0 /\ DefersClose(q.kind) THEN @ + 1 ELSE @,
     !.recycled = IF q.fs /\ DefersRecycle(q.kind) THEN @ + 1 ELSE @]

\* ------------------------------------------------------------- the cache
\* cache.Get(prefix + id)
CacheGet_Always(prefix, id) == TRUE

CacheGet(prefix, id) == <<prefix, id>> \in cache

\* cache.Deletes(keys, prefix): removes prefix + key for each key
CacheDeletes(ids, prefix) == cache \ {<<prefix, id>> : id \in ids}

\* The namespace each handler reads its token from.
GetPrefix(kind) == IF kind = "Download" THEN "download_" ELSE "archive_"

\* The namespace each handler deletes its token from.
DeletePrefix_Swapped(kind) == IF kind = "Download" THEN "archive_" ELSE "download_"

DeletePrefix(kind) == IF kind = "Download" THEN "download_" ELSE "archive_"

\* if fs.User.Group.OptionsSerialized.OneTimeDownload { cache.Deletes(...) }
DeletesSession_Always(oneTime) == TRUE

DeletesSession(oneTime) == oneTime

\* A session entry's time-to-live lapses.
Expire ==
  /\ \E k \in cache :
       /\ cache' = cache \ {k}
       /\ dead' = dead \cup {k}
  /\ UNCHANGED <<files, store, used, nextKey, rq, started>>

\* --------------------------------------------- Download / DownloadArchived
\* NewFileSystemFromContext, then the handler is entered with its token.
DownloadBegin(r) ==
  /\ CanStart(r)
  /\ \E kind \in {"Download", "DownloadArchived"}, id \in SessionIDs,
        one \in BOOLEAN, fsOK \in BOOLEAN :
       LET q == [IdleReq EXCEPT !.kind = kind, !.sid = id, !.oneTime = one,
                             !.deadAtStart = (<<GetPrefix(kind), id>> \in dead)]
       IN rq' = [rq EXCEPT ![r] =
                   IF fsOK THEN [q EXCEPT !.pc = "get", !.fs = TRUE]
                   ELSE Exit(q, "PolicyNotAllowed")]
  /\ started' = started + 1
  /\ UNCHANGED <<files, store, used, nextKey, cache, dead>>

\* cache.Get; 404 when the token does not resolve.
DownloadGet(r) ==
  /\ rq[r].pc = "get"
  /\ rq' = [rq EXCEPT ![r] =
              IF CacheGet(GetPrefix(@.kind), @.sid)
              THEN [@ EXCEPT !.pc = "stream"]
              ELSE Exit(@, "404")]
  /\ UNCHANGED <<files, store, used, nextKey, cache, dead, started>>

\* rs, err := ...; defer rs.Close(); if err != nil { return ... }
\* The defer statement comes before the error check: on an error there is no
\* stream, and rs.Close is invoked on what stands for it.  This is a nil
\* interface, on which the defer statement panics, or a nil pointer in an
\* interface, on which Close is called when the handler returns.
CloseBeforeCheck(q, nilInterface) ==
  IF nilInterface
  THEN [Exit(q, "panic") EXCEPT !.panicked = TRUE, !.nilClose = TRUE]
  ELSE [Exit(q, "NotSet") EXCEPT !.nilClose = TRUE]

\* Download: rs, err := fs.GetDownloadContent; if err != nil return; defer rs.Close()
\* DownloadArchived: rs, err := fs.GetPhysicalFileContent; defer rs.Close();
\* if err != nil return.
DownloadStream(r) ==
  /\ rq[r].pc = "stream"
  /\ \E ok \in BOOLEAN, absent \in BOOLEAN :
       rq' = [rq EXCEPT ![r] =
                IF ok THEN [@ EXCEPT !.pc = "consume", !.streamOK = TRUE, !.opened = 1]
                ELSE IF @.kind = "DownloadArchived"
                     THEN CloseBeforeCheck(@, absent)
                     ELSE Exit(@, "NotSet")]
  /\ UNCHANGED <<files, store, used, nextKey, cache, dead, started>>

\* The one-time deletion, before the content is served.
DownloadConsume(r) ==
  /\ rq[r].pc = "consume"
  /\ LET q == rq[r] IN
       IF DeletesSession(q.oneTime)
       THEN /\ cache' = CacheDeletes({q.sid}, DeletePrefix(q.kind))
            /\ rq' = [rq EXCEPT ![r] = [q EXCEPT !.pc = "serve", !.deleted = TRUE]]
       ELSE /\ cache' = cache
            /\ rq' = [rq EXCEPT ![r] = [q EXCEPT !.pc = "serve"]]
  /\ UNCHANGED <<files, store, used, nextKey, dead, started>>

\* http.ServeContent and the code 0 response; the request is completed.
DownloadServe(r) ==
  /\ rq[r].pc = "serve"
  /\ rq' = [rq EXCEPT ![r] = [Exit(@, "0") EXCEPT !.served = TRUE]]
  /\ dead' = IF rq[r].oneTime
             THEN dead \cup {<<GetPrefix(rq[r].kind), rq[r].sid>>}
             ELSE dead
  /\ UNCHANGED <<files, store, used, nextKey, cache, started>>

\* ------------------------------------------------------- the hook pipeline
\* fs.Use(stage, hook): appends the hook to the stage's callbacks.
Use(hooks, stage, hook) == [hooks EXCEPT ![stage] = Append(@, hook)]

\* Create: fs.Use("BeforeUpload", HookValidateFile); fs.Use("AfterUpload", GenericAfterUpload)
CreateHooks_NoAfterUpload(hooks) == Use(hooks, "BeforeUpload", "HookValidateFile")

CreateHooks(hooks) ==
  Use(Use(hooks, "BeforeUpload", "HookValidateFile"), "AfterUpload", "GenericAfterUpload")

\* PutContent, soft-link branch: HookUpdateSourceName on the three terminal stages.
SoftLinkHooks_NoValidateFailed(hooks) ==
  Use(Use(hooks, "AfterUpload", "HookUpdateSourceName"),
      "AfterUploadCanceled", "HookUpdateSourceName")

SoftLinkHooks(hooks) ==
  Use(Use(Use(hooks, "AfterUpload", "HookUpdateSourceName"),
          "AfterUploadCanceled", "HookUpdateSourceName"),
      "AfterValidateFailed", "HookUpdateSourceName")

\* PutContent: the hooks every update registers, in the order of the source.
PutContentHooks_Reordered(hooks) ==
  LET h1 == Use(hooks, "BeforeUpload", "HookValidateFile")
      h2 == Use(h1, "BeforeUpload", "HookResetPolicy")
      h3 == Use(h2, "BeforeUpload", "HookChangeCapacity")
      h4 == Use(h3, "AfterUploadCanceled", "HookCleanFileContent")
      h5 == Use(h4, "AfterUploadCanceled", "HookClearFileSize")
      h6 == Use(h5, "AfterUploadCanceled", "HookGiveBackCapacity")
      h7 == Use(h6, "AfterUpload", "GenericAfterUpdate")
      h8 == Use(h7, "AfterValidateFailed", "HookCleanFileContent")
      h9 == Use(h8, "AfterValidateFailed", "HookClearFileSize")
  IN Use(h9, "AfterValidateFailed", "HookGiveBackCapacity")

PutContentHooks(hooks) ==
  LET h1 == Use(hooks, "BeforeUpload", "HookResetPolicy")
      h2 == Use(h1, "BeforeUpload", "HookValidateFile")
      h3 == Use(h2, "BeforeUpload", "HookChangeCapacity")
      h4 == Use(h3, "AfterUploadCanceled", "HookCleanFileContent")
      h5 == Use(h4, "AfterUploadCanceled", "HookClearFileSize")
      h6 == Use(h5, "AfterUploadCanceled", "HookGiveBackCapacity")
      h7 == Use(h6, "AfterUpload", "GenericAfterUpdate")
      h8 == Use(h7, "AfterValidateFailed", "HookCleanFileContent")
      h9 == Use(h8, "AfterValidateFailed", "HookClearFileSize")
  IN Use(h9, "AfterValidateFailed", "HookGiveBackCapacity")

\* model.RemoveFilesWithSoftLinks: the records of the list whose physical
\* object no other record references.
RemoveFilesWithSoftLinks(id, key) ==
  IF \E f \in FileIDs \ {id} : files[f].exists /\ files[f].SourceName = key
  THEN <<>> ELSE <<id>>

\* if err == nil && len(fileList) == 0
HasSoftLinks(err, fileList) == ~err /\ Len(fileList) = 0

\* The effect of each hook on the records, the storage and the capacity.
HookUpdateSourceName(q, fs) == [fs EXCEPT ![q.fileID].SourceName = q.origin.SourceName]

HookClearFileSize(q, fs) == [fs EXCEPT ![q.fileID].Size = q.origin.Size]

GenericAfterUpdate(q, fs) == [fs EXCEPT ![q.fileID].Size = q.size]

GenericAfterUpload(q, fs) ==
  [fs EXCEPT ![q.fileID] = [exists |-> TRUE, SourceName |-> q.savePath, Size |-> q.size]]

HookCleanFileContent(r, q, st) ==
  IF q.origin.SourceName \in q.wrote
  THEN [st EXCEPT ![q.origin.SourceName] = <<"empty", r>>]
  ELSE st

HookChangeCapacity(q, u) == u + q.size

HookGiveBackCapacity(q, u) == u - q.deducted

HookFiles(h, q) ==
  CASE h = "HookUpdateSourceName" -> HookUpdateSourceName(q, files)
    [] h = "HookClearFileSize" -> HookClearFileSize(q, files)
    [] h = "GenericAfterUpdate" -> GenericAfterUpdate(q, files)
    [] h = "GenericAfterUpload" -> GenericAfterUpload(q, files)
    [] OTHER -> files

HookStore(h, r, q) ==
  IF h = "HookCleanFileContent" THEN HookCleanFileContent(r, q, store) ELSE store

HookUsed(h, q) ==
  CASE h = "HookChangeCapacity" -> HookChangeCapacity(q, used)
    [] h = "HookGiveBackCapacity" -> HookGiveBackCapacity(q, used)
    [] OTHER -> used

HookDeducted(h, q) ==
  CASE h = "HookChangeCapacity" -> q.size
    [] h = "HookGiveBackCapacity" -> 0
    [] OTHER -> q.deducted

\* A hook that cannot succeed: GenericAfterUpload on a path that holds a file.
HookMustFail(h, q) == h = "GenericAfterUpload" /\ files[q.fileID].exists

\* if err != nil { return serializer.Err(CodeUploadFailed, err.Error(), err) }
\* return serializer.Response{Code: 0}
UploadResponse_Swallow(errs) == "0"

UploadResponse(errs) == IF errs # <<>> THEN "UploadFailed" ELSE "0"

\* fs.Upload returned: the handler answers with the error it got as the
\* cause, and its deferred cancel() runs.
Return(q) == [Exit(q, UploadResponse(q.errs)) EXCEPT !.cause = q.errs, !.ctxDone = TRUE]

\* fs.Upload: what follows a stage whose callbacks all passed: the transfer
\* after BeforeUpload, the return after a terminal stage.
StageDone(q) ==
  IF q.stage = "BeforeUpload" THEN [q EXCEPT !.pc = "put"] ELSE Return(q)

\* fs.Trigger(stage): the stage fires; with no callback it is over at once.
EnterStage(q, s) ==
  LET q1 == [q EXCEPT !.stage = s, !.idx = 1, !.stages = Append(@, s), !.pc = "hooks"]
  IN IF q.hooks[s] = <<>> THEN StageDone(q1) ELSE q1

\* fs.Upload: the stage that follows a failed BeforeUpload.
StageAfterValidateFailure == "AfterValidateFailed"

\* One callback of the current stage runs; it passes or fails.
RunHook(r) ==
  /\ rq[r].pc = "hooks"
  /\ LET q == rq[r]
         h == q.hooks[q.stage][q.idx]
     IN \E ok \in BOOLEAN :
          /\ ok => ~HookMustFail(h, q)
          /\ IF ok
             THEN /\ files' = HookFiles(h, q)
                  /\ store' = HookStore(h, r, q)
                  /\ used' = HookUsed(h, q)
                  /\ LET q1 == [q EXCEPT !.ran = Append(@, [stage |-> q.stage, hook |-> h, ok |-> TRUE]),
                                        !.deducted = HookDeducted(h, q)]
                     IN rq' = [rq EXCEPT ![r] =
                                 IF q.idx = Len(q.hooks[q.stage]) THEN StageDone(q1)
                                 ELSE [q1 EXCEPT !.idx = @ + 1]]
             ELSE /\ UNCHANGED <<files, store, used>>
                  /\ LET q1 == [q EXCEPT !.ran = Append(@, [stage |-> q.stage, hook |-> h, ok |-> FALSE]),
                                        !.errs = Append(@, <<q.stage, h>>)]
                     IN rq' = [rq EXCEPT ![r] =
                                 IF q.stage = "BeforeUpload"
                                 THEN EnterStage(q1, StageAfterValidateFailure)
                                 ELSE Return(q1)]
  /\ UNCHANGED <<nextKey, cache, dead, started>>

\* The physical path of the upload: the key of the record being overwritten
\* (FileModelCtx), or a generated one.
SavePath(q) == IF q.kind = "PutContent" THEN q.origin.SourceName ELSE nextKey

FullContent(q, r) == IF q.size = 0 THEN <<"empty", r>> ELSE <<"full", r>>

PartialContent(q, r) == IF q.size = 0 THEN <<"empty", r>> ELSE <<"partial", r>>

\* fsctx.DisableOverwrite: the write is refused where a file exists.
WriteRefused(q) == q.kind = "Create" /\ files[q.fileID].exists

\* The driver starts to write the stream at the save path.
TransferWrite(r) ==
  /\ rq[r].pc = "put"
  /\ rq[r].cancel # "client"
  /\ ~WriteRefused(rq[r])
  /\ LET q == rq[r]
         sp == SavePath(q)
     IN /\ store' = [store EXCEPT ![sp] = PartialContent(q, r)]
        /\ nextKey' = IF q.kind = "Create" THEN nextKey + 1 ELSE nextKey
        /\ rq' = [rq EXCEPT ![r] = [q EXCEPT !.pc = "xfer", !.savePath = sp,
                                            !.xfer = "partial", !.wrote = @ \cup {sp}]]
  /\ UNCHANGED <<files, used, cache, dead, started>>

\* The stream is fully persisted; AfterUpload fires.
TransferFinish(r) ==
  /\ rq[r].pc = "xfer"
  /\ rq[r].cancel # "client"
  /\ LET q == rq[r] IN
       /\ store' = [store EXCEPT ![q.savePath] = FullContent(q, r)]
       /\ rq' = [rq EXCEPT ![r] = EnterStage([q EXCEPT !.xfer = "full"], "AfterUpload")]
  /\ UNCHANGED <<files, used, nextKey, cache, dead, started>>

\* The write is refused, or the stream errors on the way (as it does when
\* the client is gone); AfterUploadCanceled fires.
TransferFail(r) ==
  /\ \/ rq[r].pc = "xfer"
     \/ rq[r].pc = "put" /\ WriteRefused(rq[r])
  /\ rq' = [rq EXCEPT ![r] =
              EnterStage([@ EXCEPT !.xfer = "failed", !.errs = Append(@, <<"Transfer", "Put">>)],
                         "AfterUploadCanceled")]
  /\ UNCHANGED <<files, store, used, nextKey, cache, dead, started>>

\* The client abandons the connection during the transfer: the body can no
\* longer be read.
ClientAbort(r) ==
  /\ rq[r].kind = "PutContent"
  /\ rq[r].pc = "xfer"
  /\ rq[r].cancel = "none"
  /\ rq' = [rq EXCEPT ![r] = [@ EXCEPT !.cancel = "client"]]
  /\ UNCHANGED <<files, store, used, nextKey, cache, dead, started>>

\* The context passed to the handler is cancelled during the transfer.  The
\* handler has replaced it by one derived from context.Background(), which
\* only its own deferred cancel() ends.
CancelInbound(r) ==
  /\ rq[r].kind = "PutContent"
  /\ rq[r].pc = "xfer"
  /\ rq[r].cancel = "none"
  /\ rq' = [rq EXCEPT ![r] = [@ EXCEPT !.cancel = "ctx"]]
  /\ UNCHANGED <<files, store, used, nextKey, cache, dead, started>>

\* ------------------------------------------------------------------ Create
\* The path either holds a file already (44) or is free (45).
CreatePaths == {44, 45}

CreateBegin(r) ==
  /\ CanStart(r)
  /\ \E path \in CreatePaths, fsOK \in BOOLEAN :
       LET q == [IdleReq EXCEPT !.kind = "Create", !.fileID = path, !.size = 0]
       IN rq' = [rq EXCEPT ![r] =
                   IF fsOK
                   THEN EnterStage([q EXCEPT !.hooks = CreateHooks(NoHooks), !.fs = TRUE],
                                   "BeforeUpload")
                   ELSE Exit(q, "PolicyNotAllowed")]
  /\ started' = started + 1
  /\ UNCHANGED <<files, store, used, nextKey, cache, dead>>

\* -------------------------------------------------------------- PutContent
\* The object_id of the request: 42 (soft-linked with 43), 44 (not
\* soft-linked) or 45 (no record unless a Create has made it).
ObjectIDs == {42, 44, 45}

\* ctx, cancel := context.WithCancel(context.Background()); Content-Length
\* is parsed; the filesystem is created.
PutContentBegin(r) ==
  /\ CanStart(r)
  /\ \E id \in ObjectIDs, size \in UploadSizes, out \in {"ok", "ParamErr", "PolicyNotAllowed"} :
       LET q == [IdleReq EXCEPT !.kind = "PutContent", !.fileID = id]
       IN rq' = [rq EXCEPT ![r] =
                   IF out = "ok" THEN [q EXCEPT !.pc = "getfile", !.size = size, !.fs = TRUE]
                   ELSE [Exit(q, out) EXCEPT !.ctxDone = TRUE]]
  /\ started' = started + 1
  /\ UNCHANGED <<files, store, used, nextKey, cache, dead>>

\* model.GetFilesByIDs; 404 when the id resolves to no record.
PutContentGetFile(r) ==
  /\ rq[r].pc = "getfile"
  /\ LET q == rq[r]
         f == files[q.fileID]
     IN rq' = [rq EXCEPT ![r] =
                 IF ~f.exists THEN [Exit(q, "404") EXCEPT !.ctxDone = TRUE]
                 ELSE [q EXCEPT !.pc = "softlink", !.oldKey = f.SourceName,
                                !.origin = [SourceName |-> f.SourceName, Size |-> f.Size]]]
  /\ UNCHANGED <<files, store, used, nextKey, cache, dead, started>>

\* The soft-link check, the registration of the hooks, and the call of
\* fs.Upload with the record in the context.
PutContentSoftLink(r) ==
  /\ rq[r].pc = "softlink"
  /\ \E err \in BOOLEAN :
       LET q == rq[r]
           fileList == RemoveFilesWithSoftLinks(q.fileID, q.origin.SourceName)
           q0 == [q EXCEPT !.sharedAtCheck = (Len(fileList) = 0)]
       IN IF HasSoftLinks(err, fileList)
          THEN /\ nextKey' = nextKey + 1
               /\ rq' = [rq EXCEPT ![r] =
                           EnterStage([q0 EXCEPT !.origin.SourceName = nextKey, !.cow = TRUE,
                                                 !.hooks = PutContentHooks(SoftLinkHooks(NoHooks))],
                                      "BeforeUpload")]
          ELSE /\ nextKey' = nextKey
               /\ rq' = [rq EXCEPT ![r] =
                           EnterStage([q0 EXCEPT !.hooks = PutContentHooks(NoHooks)],
                                      "BeforeUpload")]
  /\ UNCHANGED <<files, store, used, cache, dead, started>>

\* ------------------------------------- FileAnonymousGetService.Download
\* NewAnonymousFileSystem and fs.SetTargetFileByIDs.
AnonymousBegin(r) ==
  /\ CanStart(r)
  /\ \E out \in {"ok", "GroupNotAllowed", "NotSet"} :
       LET q == [IdleReq EXCEPT !.kind = "AnonymousDownload"]
       IN rq' = [rq EXCEPT ![r] =
                   CASE out = "ok" -> [q EXCEPT !.pc = "astream", !.fs = TRUE]
                     [] out = "NotSet" -> Exit([q EXCEPT !.fs = TRUE], "NotSet")
                     [] OTHER -> Exit(q, "GroupNotAllowed")]
  /\ started' = started + 1
  /\ UNCHANGED <<files, store, used, nextKey, cache, dead>>

\* rs, err := fs.GetDownloadContent(ctx, 0); defer rs.Close(); if err != nil return
AnonymousStream(r) ==
  /\ rq[r].pc = "astream"
  /\ \E ok \in BOOLEAN, absent \in BOOLEAN :
       rq' = [rq EXCEPT ![r] =
                IF ok THEN [@ EXCEPT !.pc = "aserve", !.streamOK = TRUE, !.opened = 1]
                ELSE CloseBeforeCheck(@, absent)]
  /\ UNCHANGED <<files, store, used, nextKey, cache, dead, started>>

\* http.ServeContent and the code 0 response.
AnonymousServe(r) ==
  /\ rq[r].pc = "aserve"
  /\ rq' = [rq EXCEPT ![r] = [Exit(@, "0") EXCEPT !.served = TRUE]]
  /\ UNCHANGED <<files, store, used, nextKey, cache, dead, started>>

\* ---------------------------------------------------------- PreviewContent
\* The cache lifetimes a redirecting preview response may carry.
MaxAges == {60, 3600}

\* fs.Preview: a text preview, and a file whose policy previews directly,
\* come as a content stream; any other as a redirect to a signed URL.
Preview(isText, direct, maxAge) ==
  IF isText \/ direct
  THEN [Redirect |-> FALSE, MaxAge |-> 0, URL |-> FALSE, Content |-> TRUE]
  ELSE [Redirect |-> TRUE, MaxAge |-> maxAge, URL |-> TRUE, Content |-> FALSE]

\* c.Header("Cache-Control", fmt.Sprintf("max-age=%d", resp.MaxAge))
RedirectHeader_NoCache(resp) == <<"no-cache">>

RedirectHeader(resp) == <<"max-age", resp.MaxAge>>

\* if isText { c.Header("Cache-Control", "no-cache") }
ContentHeader_Never(isText) == <<>>

ContentHeader(isText) == IF isText THEN <<"no-cache">> ELSE <<>>

\* The filesystem is created and the target is reset from the context.
PreviewBegin(r) ==
  /\ CanStart(r)
  /\ \E isText \in BOOLEAN, out \in {"ok", "PolicyNotAllowed", "NotFound"} :
       LET q == [IdleReq EXCEPT !.kind = "PreviewContent", !.isText = isText]
       IN rq' = [rq EXCEPT ![r] =
                   CASE out = "ok" -> [q EXCEPT !.pc = "preview", !.fs = TRUE]
                     [] out = "NotFound" -> Exit([q EXCEPT !.fs = TRUE], "NotFound")
                     [] OTHER -> Exit(q, "PolicyNotAllowed")]
  /\ started' = started + 1
  /\ UNCHANGED <<files, store, used, nextKey, cache, dead>>

\* resp, err := fs.Preview(...); the error return, or the redirect branch,
\* or on to the content branch.
PreviewGet(r) ==
  /\ rq[r].pc = "preview"
  /\ \E err \in BOOLEAN, direct \in BOOLEAN, maxAge \in MaxAges :
       LET q == rq[r]
           resp == Preview(q.isText, direct, maxAge)
       IN rq' = [rq EXCEPT ![r] =
                   IF err THEN Exit(q, "NotSet")
                   ELSE IF resp.Redirect
                        THEN Exit([q EXCEPT !.resp = resp, !.header = RedirectHeader(resp),
                                            !.url = resp.URL], "-301")
                        ELSE [q EXCEPT !.pc = "pserve", !.resp = resp, !.streamOK = TRUE,
                                       !.opened = IF resp.Content THEN 1 ELSE 0]]
  /\ UNCHANGED <<files, store, used, nextKey, cache, dead, started>>

\* defer resp.Content.Close(); the no-cache header of a text preview;
\* http.ServeContent and the code 0 response.
PreviewServe(r) ==
  /\ rq[r].pc = "pserve"
  /\ LET q == rq[r] IN
       rq' = [rq EXCEPT ![r] =
                [Exit([q EXCEPT !.header = ContentHeader(q.isText)], "0") EXCEPT !.served = TRUE]]
  /\ UNCHANGED <<files, store, used, nextKey, cache, dead, started>>

DownloadNext ==
  \/ Expire
  \/ \E r \in Reqs : DownloadBegin(r)
  \/ \E r \in Reqs : DownloadGet(r)
  \/ \E r \in Reqs : DownloadStream(r)
  \/ \E r \in Reqs : DownloadConsume(r)
  \/ \E r \in Reqs : DownloadServe(r)

UploadNext ==
  \/ \E r \in Reqs : CreateBegin(r)
  \/ \E r \in Reqs : PutContentBegin(r)
  \/ \E r \in Reqs : PutContentGetFile(r)
  \/ \E r \in Reqs : PutContentSoftLink(r)
  \/ \E r \in Reqs : RunHook(r)
  \/ \E r \in Reqs : TransferWrite(r)
  \/ \E r \in Reqs : TransferFinish(r)
  \/ \E r \in Reqs : TransferFail(r)
  \/ \E r \in Reqs : ClientAbort(r)
  \/ \E r \in Reqs : CancelInbound(r)

\* Every handler that delivers content.
ServeNext ==
  \/ DownloadNext
  \/ \E r \in Reqs : AnonymousBegin(r)
  \/ \E r \in Reqs : AnonymousStream(r)
  \/ \E r \in Reqs : AnonymousServe(r)
  \/ \E r \in Reqs : PreviewBegin(r)
  \/ \E r \in Reqs : PreviewGet(r)
  \/ \E r \in Reqs : PreviewServe(r)

Next == UploadNext \/ ServeNext

\* Any mix of requests.
Spec == Init /\ [][Next]_vars

\* The upload requests among themselves, and the download requests among
\* themselves: the two families share no state.
UploadSpec == Init /\ [][UploadNext]_vars

DownloadSpec == Init /\ [][DownloadNext]_vars

ServeSpec == Init /\ [][ServeNext]_vars

\* ------------------------------------------------------------------ claims
IsUpload(q) == q.kind \in {"Create", "PutContent"}

IsDownload(q) == q.kind \in {"Download", "DownloadArchived"}

Done(q) == q.pc = "done"

\* The request called fs.Upload.
Uploading(q) == IsUpload(q) /\ q.stages # <<>>

\* The step is one of request r.
StepOf(r) == rq'[r] # rq[r]

\* The step with which request r returns.
Returns(r) == rq[r].pc # "done" /\ rq'[r].pc = "done"

Failed(q, s) == \E i \in 1..Len(q.errs) : q.errs[i][1] = s

RanIn(q, s) == SelectSeq(q.ran, LAMBDA e : e.stage = s)

HookNames(seq) == [i \in 1..Len(seq) |-> seq[i].hook]

IsPrefix(a, b) == Len(a) <= Len(b) /\ \A i \in 1..Len(a) : a[i] = b[i]

Passed(q, s) ==
  /\ Len(RanIn(q, s)) = Len(q.hooks[s])
  /\ \A i \in 1..Len(q.ran) : q.ran[i].stage = s => q.ran[i].ok

TerminalStages(q) == SelectSeq(q.stages, LAMBDA s : s # "BeforeUpload")

\* C1 (as claimed): an upload whose BeforeUpload stage fails leaves the size
\* and the physical key of the target record as they were, in the soft-link
\* branch too, and has run every hook registered on AfterValidateFailed
\* exactly once when it returns.
C1_ValidateFailedLeavesRecord ==
  [][\A r \in Reqs :
       (StepOf(r) /\ IsUpload(rq'[r]) /\ Failed(rq'[r], "BeforeUpload"))
       => LET q == rq'[r] IN
            /\ files'[q.fileID] = files[q.fileID]
            /\ Returns(r) =>
                 HookNames(RanIn(q, "AfterValidateFailed")) = q.hooks["AfterValidateFailed"]]_vars

\* C2 (as claimed): a PutContent that succeeds on a record whose key another
\* record shares leaves the record on the fresh key of the attempt and has
\* not touched the object under the old key nor the other records; on a key
\* that is not shared it keeps the key and has written in place.
C2_SuccessfulOverwrite ==
  [][\A r \in Reqs :
       (Returns(r) /\ rq'[r].kind = "PutContent" /\ rq'[r].code = "0")
       => LET q == rq'[r] IN
            IF q.sharedAtCheck
            THEN /\ q.origin.SourceName # q.oldKey
                 /\ files'[q.fileID].SourceName = q.origin.SourceName
                 /\ q.oldKey \notin q.wrote
                 /\ store'[q.oldKey] = OrigContent
                 /\ \A f \in FileIDs \ {q.fileID} : files'[f] = files[f]
            ELSE /\ files'[q.fileID].SourceName = q.oldKey
                 /\ q.wrote = {q.oldKey}]_vars

\* C3 (as claimed): no step of a PutContent request writes, truncates or
\* removes an object whose key a record other than its target references.
C3_SharedObjectUntouched ==
  [][\A r \in Reqs, k \in Keys :
       (StepOf(r) /\ rq[r].kind = "PutContent" /\ store'[k] # store[k])
       => \A f \in FileIDs \ {rq[r].fileID} :
            ~(files[f].exists /\ files[f].SourceName = k)]_vars

UpdateSourceNameFailed(q) ==
  \E i \in 1..Len(q.errs) : q.errs[i][2] = "HookUpdateSourceName"

SessionKey(q) == <<GetPrefix(q.kind), q.sid>>

\* C5: a request that starts after its token has expired, or after a
\* completed one-time download has used it, never gets the session value:
\* its lookup is answered 404 and it serves no content, just as a request
\* for the token "b", which never existed.  (A request whose filesystem
\* cannot be created is answered policy-not-allowed before any lookup,
\* whatever its token.)
C5_DeadTokenNotFound ==
  \A r \in Reqs :
    LET q == rq[r] IN
      (IsDownload(q) /\ (q.deadAtStart \/ q.sid = "b"))
      => /\ q.pc \notin {"stream", "consume", "serve"}
         /\ ~q.streamOK /\ ~q.served /\ ~q.deleted
         /\ (Done(q) /\ q.code # "PolicyNotAllowed") => q.code = "404"

\* C5 witness: a one-time download has completed, and a request that started
\* after it with the same token has been answered 404.
C5_Witness ==
  \E r, o \in Reqs :
    /\ r # o
    /\ Done(rq[o]) /\ rq[o].oneTime /\ rq[o].served
    /\ Done(rq[r]) /\ IsDownload(rq[r]) /\ rq[r].deadAtStart /\ rq[r].code = "404"
    /\ SessionKey(rq[r]) = SessionKey(rq[o])
    /\ rq[r].sid = "a"

\* C6 (as claimed): of the one-time requests that present the same token, at
\* most one is served.
C6_ServedOnce ==
  \A r, o \in Reqs :
    (/\ r # o
     /\ IsDownload(rq[r]) /\ IsDownload(rq[o])
     /\ rq[r].oneTime /\ rq[o].oneTime
     /\ SessionKey(rq[r]) = SessionKey(rq[o]))
    => ~(rq[r].served /\ rq[o].served)

\* The hooks of a stage in the order of the fs.Use calls of the handler.
SourceOrder(q, s) ==
  LET first == IF q.cow THEN <<"HookUpdateSourceName">> ELSE <<>>
      rollback == <<"HookCleanFileContent", "HookClearFileSize", "HookGiveBackCapacity">>
  IN IF q.kind = "Create"
     THEN CASE s = "BeforeUpload" -> <<"HookValidateFile">>
            [] s = "AfterUpload" -> <<"GenericAfterUpload">>
            [] OTHER -> <<>>
     ELSE CASE s = "BeforeUpload" -> <<"HookResetPolicy", "HookValidateFile", "HookChangeCapacity">>
            [] s = "AfterUpload" -> first \o <<"GenericAfterUpdate">>
            [] OTHER -> first \o rollback

\* C7: in an upload attempt the hooks of a stage run one after the other in
\* the order they were registered in; nothing is written before every
\* BeforeUpload hook has passed; at most one terminal stage fires, and
\* exactly one by the time the attempt returns: AfterValidateFailed exactly
\* when BeforeUpload failed (and then nothing was written),
\* AfterUploadCanceled exactly when BeforeUpload passed and the transfer
\* failed, AfterUpload exactly when the stream was fully persisted.
C7_StageDiscipline ==
  \A r \in Reqs :
    LET q == rq[r] IN
      Uploading(q)
      => /\ \A s \in Stages :
              /\ IsPrefix(HookNames(RanIn(q, s)), q.hooks[s])
              /\ IsPrefix(HookNames(RanIn(q, s)), SourceOrder(q, s))
         /\ \A i, j \in 1..Len(q.ran) :
              i < j => (q.ran[i].stage = q.ran[j].stage \/ q.ran[i].stage = "BeforeUpload")
         /\ (q.wrote # {} \/ q.xfer # "none") => Passed(q, "BeforeUpload")
         /\ Len(TerminalStages(q)) <= 1
         /\ Done(q) => Len(TerminalStages(q)) = 1
         /\ TerminalStages(q) = <<"AfterValidateFailed">> <=> Failed(q, "BeforeUpload")
         /\ Failed(q, "BeforeUpload") => (q.wrote = {} /\ q.xfer = "none")
         /\ TerminalStages(q) = <<"AfterUploadCanceled">>
              <=> (Passed(q, "BeforeUpload") /\ q.xfer = "failed")
         /\ TerminalStages(q) = <<"AfterUpload">> <=> q.xfer = "full"

\* C7 witness: a PutContent whose transfer failed has run the three
\* AfterUploadCanceled hooks and returned.
C7_Witness ==
  \E r \in Reqs :
    /\ Done(rq[r]) /\ rq[r].kind = "PutContent"
    /\ rq[r].stages = <<"BeforeUpload", "AfterUploadCanceled">>
    /\ Passed(rq[r], "AfterUploadCanceled")
    /\ rq[r].wrote # {}

C9_CancelReachesUpload ==
  \A r \in Reqs :
    LET q == rq[r] IN
      q.kind = "PutContent"
      => /\ (q.cancel = "ctx" /\ ~Done(q)) => q.ctxDone
         /\ (Done(q) /\ q.cancel # "none") => TerminalStages(q) = <<"AfterUploadCanceled">>

\* C10: a step of Download or DownloadArchived changes the session store
\* only by deleting its own token, after the stream was obtained, for a
\* user with OneTimeDownload, and before any byte is served; such a request
\* does delete it; every other change of the store is the lapse of an
\* entry's time-to-live.
C10_DeleteOnlyOneTimeAfterStream ==
  [][/\ cache' # cache =>
          \/ /\ rq' = rq
             /\ \E k \in cache : cache' = cache \ {k} /\ dead' = dead \cup {k}
          \/ \E r \in Reqs :
               /\ StepOf(r) /\ IsDownload(rq[r])
               /\ rq[r].pc = "consume" /\ rq[r].streamOK /\ rq[r].oneTime
               /\ ~rq[r].served /\ ~rq'[r].served
               /\ cache' = cache \ {SessionKey(rq[r])}
     /\ \A r \in Reqs :
          (StepOf(r) /\ rq[r].pc = "consume" /\ rq[r].oneTime)
          => SessionKey(rq[r]) \notin cache'
     /\ \A r \in Reqs :
          (StepOf(r) /\ rq'[r].served)
          => /\ rq[r].pc = "serve"
             /\ rq[r].oneTime => SessionKey(rq[r]) \notin cache]_vars

\* C10 witness: a one-time request has deleted its token and has not yet
\* served a byte, while another request, without OneTimeDownload, has got
\* its stream and left the store alone.
C10_Witness ==
  \E r, o \in Reqs :
    /\ rq[r].pc = "serve" /\ rq[r].oneTime /\ rq[r].deleted
    /\ SessionKey(rq[r]) \notin cache
    /\ rq[o].pc = "serve" /\ ~rq[o].oneTime /\ ~rq[o].deleted
    /\ SessionKey(rq[o]) \in cache

\* C11: a Download or DownloadArchived whose token is not in the session
\* store at its lookup, and a PutContent whose file id resolves to no
\* record, return the 404 response at that step; and the step with which a
\* request returns 404 changes no record, no object, no capacity counter
\* and no session entry, after a request that ran no hook, deleted no
\* session entry, reserved no capacity and wrote nothing.
C11_NotFoundMutatesNothing ==
  [][\A r \in Reqs :
       /\ (/\ StepOf(r)
           /\ \/ rq[r].pc = "get" /\ SessionKey(rq[r]) \notin cache
              \/ rq[r].pc = "getfile" /\ ~files[rq[r].fileID].exists)
          => (Returns(r) /\ rq'[r].code = "404")
       /\ (Returns(r) /\ rq'[r].code = "404")
          => LET q == rq'[r] IN
               /\ UNCHANGED <<files, store, used, nextKey, cache>>
               /\ q.ran = <<>> /\ q.stages = <<>> /\ q.hooks = NoHooks
               /\ q.wrote = {} /\ q.deducted = 0
               /\ ~q.deleted /\ ~q.served /\ q.opened = 0]_vars

\* C11 witness: a PutContent on an id without a record and a
\* DownloadArchived with a token that is not stored have both returned 404.
C11_Witness ==
  \E r, o \in Reqs :
    /\ Done(rq[r]) /\ rq[r].kind = "PutContent" /\ rq[r].code = "404"
    /\ ~files[rq[r].fileID].exists
    /\ Done(rq[o]) /\ rq[o].kind = "DownloadArchived" /\ rq[o].code = "404"
    /\ rq[o].sid = "b"

\* The request answered with one of the two success codes.
Succeeded(q) == Done(q) /\ q.code \in {"0", "-301"}

\* C12: a PreviewContent request with isText = true never gets a redirect
\* response from fs.Preview and never emits a URL nor the code -301; when it
\* succeeds it has served the content stream with Cache-Control: no-cache
\* and answered code 0.
C12_TextPreviewProxied ==
  \A r \in Reqs :
    LET q == rq[r] IN
      (q.kind = "PreviewContent" /\ q.isText)
      => /\ ~q.resp.Redirect /\ ~q.url /\ q.code # "-301"
         /\ q.header \in {<<>>, <<"no-cache">>}
         /\ Succeeded(q)
              => /\ q.code = "0" /\ q.served /\ q.resp.Content
                 /\ q.header = <<"no-cache">>

\* C12 witness: a text preview has succeeded.
C12_Witness ==
  \E r \in Reqs :
    /\ rq[r].kind = "PreviewContent" /\ rq[r].isText
    /\ Succeeded(rq[r]) /\ rq[r].served /\ rq[r].header = <<"no-cache">>

\* C13: a PreviewContent that succeeds has either taken the redirect branch
\* (the response had redirect set: Cache-Control is max-age=<the MaxAge of
\* the response>, the code is -301, the URL is emitted, no stream was
\* opened and no byte served) or the content branch (redirect not set: the
\* stream is served, the code is 0, no URL is emitted, no max-age header);
\* never both and never neither.
C13_OneBranch ==
  \A r \in Reqs :
    LET q == rq[r] IN
      q.kind = "PreviewContent"
      => /\ ~(q.served /\ q.url)
         /\ Succeeded(q)
              => IF q.resp.Redirect
                 THEN /\ q.code = "-301" /\ q.url /\ ~q.served /\ q.opened = 0
                      /\ q.header = <<"max-age", q.resp.MaxAge>>
                      /\ q.resp.MaxAge \in MaxAges
                 ELSE /\ q.code = "0" /\ q.served /\ ~q.url /\ q.opened = 1
                      /\ q.header \in {<<>>, <<"no-cache">>}

\* C13 witness: one preview has been redirected with max-age=3600 and
\* another has been served.
C13_Witness ==
  \E r, o \in Reqs :
    /\ rq[r].kind = "PreviewContent" /\ Succeeded(rq[r]) /\ rq[r].code = "-301"
    /\ rq[r].header = <<"max-age", 3600>> /\ rq[r].url
    /\ rq[o].kind = "PreviewContent" /\ Succeeded(rq[o]) /\ rq[o].code = "0"
    /\ rq[o].served /\ ~rq[o].isText

\* The handlers that obtain a content stream.
Streams(q) ==
  q.kind \in {"DownloadArchived", "AnonymousDownload", "Download", "PreviewContent"}

\* C14: in DownloadArchived, both Download handlers and PreviewContent a
\* content stream that the request opened is closed exactly once when the
\* handler has returned, and not before; a request that opened none (an
\* error return, the redirect branch) closes none.
C14_StreamsClosedOnce ==
  \A r \in Reqs :
    LET q == rq[r] IN
      Streams(q)
      => /\ q.opened \in {0, 1}
         /\ q.served => q.opened = 1
         /\ IF Done(q) THEN q.closed = q.opened ELSE q.closed = 0

\* C14 witness: a DownloadArchived has served its stream and closed it, and
\* a redirected preview has returned without a stream.
C14_Witness ==
  \E r, o \in Reqs :
    /\ Done(rq[r]) /\ rq[r].kind = "DownloadArchived" /\ rq[r].served
    /\ rq[r].opened = 1 /\ rq[r].closed = 1
    /\ Done(rq[o]) /\ rq[o].kind = "PreviewContent" /\ rq[o].code = "-301"
    /\ rq[o].opened = 0 /\ rq[o].closed = 0

\* C18 (as claimed): when the stream call of DownloadArchived or of the
\* anonymous Download fails, the handler returns the error response, no
\* operation (the deferred Close included) is invoked on the absent stream,
\* and the session store is left as it was.
C18_NoCloseOnAbsentStream ==
  [][\A r \in Reqs :
       (/\ StepOf(r)
        /\ rq[r].kind \in {"DownloadArchived", "AnonymousDownload"}
        /\ rq[r].pc \in {"stream", "astream"}
        /\ ~rq'[r].streamOK)
       => /\ Returns(r) /\ rq'[r].code = "NotSet"
          /\ ~rq'[r].nilClose /\ ~rq'[r].panicked
          /\ cache' = cache /\ ~rq'[r].deleted]_vars

\* C19 (as claimed): a handler that created a filesystem has recycled it
\* exactly once when it has returned, and a handler that created none has
\* recycled none.
C19_RecycledOnce ==
  \A r \in Reqs :
    LET q == rq[r] IN
      /\ q.recycled <= 1
      /\ ~q.fs => q.recycled = 0
      /\ (Done(q) /\ q.fs) => q.recycled = 1

C16_CapacityRestored ==
  \A r \in Reqs :
    LET q == rq[r] IN
      (/\ q.kind = "PutContent" /\ Done(q)
       /\ TerminalStages(q) \in {<<"AfterValidateFailed">>, <<"AfterUploadCanceled">>})
      => q.deducted = 0

\* C17 (as claimed): when a PutContent attempt whose BeforeUpload stage or
\* whose transfer failed returns, the object the target record points at
\* exists and holds nothing this attempt wrote, truncated or emptied.
C17_FailedPutKeepsContent ==
  [][\A r \in Reqs :
       (/\ Returns(r) /\ rq'[r].kind = "PutContent"
        /\ (Failed(rq'[r], "BeforeUpload") \/ rq'[r].xfer = "failed"))
       => LET f == files'[rq'[r].fileID] IN
            /\ f.exists
            /\ store'[f.SourceName] # NoContent
            /\ store'[f.SourceName][2] # r]_vars
====
